---- MODULE Spec2Model ----
(***************************************************************************)
(* Model of REST/keywords.py (class Keywords): the session state           *)
(* (self.request, self.schema, self.spec, self.instances), the settings,   *)
(* expectation, HTTP and assertion keywords, and the helpers they call.    *)
(*                                                                         *)
(* Python objects are references.  Dictionaries and lists live in `heap`   *)
(* (address -> object); a slot of a dictionary or a list holds a scalar    *)
(* or a reference to another heap object.  In-place mutation of an object  *)
(* is therefore seen through every reference to it, exactly as in Python,  *)
(* and deepcopy allocates fresh objects.                                   *)
(***************************************************************************)
EXTENDS Integers, Sequences, FiniteSets, TLC

VARIABLES heap, self_request, self_schema, self_spec, instances, exchanges, ret, pending

vars == <<heap, self_request, self_schema, self_spec, instances, exchanges, ret, pending>>

(***************************************************************************)
(* JSON values.  A tree is a scalar, an object (name -> tree) or an array  *)
(* (sequence of trees): the value of a parsed JSON text.                   *)
(***************************************************************************)
Null == [t |-> "null"]
JInt(n) == [t |-> "int", i |-> n]
JStr(s) == [t |-> "str", c |-> s]
JBool(b) == [t |-> "bool", b |-> b]
Obj(m) == [t |-> "obj", m |-> m]
Arr(s) == [t |-> "arr", s |-> s]
Ref(a) == [t |-> "ref", a |-> a]
EmptyMap == <<>>

IsRef(v) == v.t = "ref"

\* A deterministic enumeration of a finite set (iteration order of a fold).
RECURSIVE SetToSeq(_)
SetToSeq(S) ==
  IF S = {} THEN <<>>
  ELSE LET x == CHOOSE y \in S : TRUE IN <<x>> \o SetToSeq(S \ {x})

(***************************************************************************)
(* The heap.  An object is a dict [k |-> "dict", m |-> name -> slot] or a  *)
(* list [k |-> "list", s |-> sequence of slots].                           *)
(***************************************************************************)
IsDict(h, v) == IsRef(v) /\ h[v.a].k = "dict"
IsList(h, v) == IsRef(v) /\ h[v.a].k = "list"
Keys(h, v) == DOMAIN h[v.a].m
Has(h, v, key) == IsDict(h, v) /\ key \in Keys(h, v)
Get(h, v, key) == h[v.a].m[key]

\* d[key] = val
DictSet(h, v, key, val) == [h EXCEPT ![v.a].m = (key :> val) @@ @]
\* d.update(m)
DictUpdate(h, v, m) == [h EXCEPT ![v.a].m = m @@ @]

\* Addresses carry no meaning (Python exposes none to these keywords).  An
\* object is named by where it is: [r, n, p] is the object at access path p
\* from the n-th root named r.  A newly built value hangs from a root "new".
Address(r, n, p) == [r |-> r, n |-> n, p |-> p]

\* The name of the i-th position of a list in an access path.
IndexNames == <<"0", "1", "2", "3">>

\* The objects and arrays of a tree, each with its path in the tree.
RECURSIVE Nodes(_, _)
Nodes(tree, p) ==
  IF tree.t = "obj" THEN
    {[p |-> p, tree |-> tree]}
    \cup UNION {Nodes(tree.m[key], Append(p, key)) : key \in DOMAIN tree.m}
  ELSE IF tree.t = "arr" THEN
    {[p |-> p, tree |-> tree]}
    \cup UNION {Nodes(tree.s[i], Append(p, IndexNames[i])) : i \in 1..Len(tree.s)}
  ELSE {}

\* The slot that holds `child`, the value at path p of the n-th new value.
Slot(n, p, child) ==
  IF child.t \in {"obj", "arr"} THEN Ref(Address("new", n, p)) ELSE child

NewObject(n, node) ==
  IF node.tree.t = "obj" THEN
    [k |-> "dict",
     m |-> [key \in DOMAIN node.tree.m |-> Slot(n, Append(node.p, key), node.tree.m[key])]]
  ELSE
    [k |-> "list",
     s |-> [i \in 1..Len(node.tree.s) |->
              Slot(n, Append(node.p, IndexNames[i]), node.tree.s[i])]]

\* Build a tree in the heap: the objects a JSON parse (or any constructor of
\* a fresh nested value) allocates.  Returns the new heap and the slot value.
Alloc(h, tree) ==
  LET Built(n, nodes) ==
        [h |-> [a \in {Address("new", n, x.p) : x \in nodes} |->
                  NewObject(n, CHOOSE x \in nodes : x.p = a.p)] @@ h,
         v |-> Slot(n, <<>>, tree)]
  IN Built(Cardinality(DOMAIN h), Nodes(tree, <<>>))

\* The tree a slot value denotes (what json.dump would print).  A reference
\* met again below itself is a cycle and is rendered as a marker.
RECURSIVE TreeAt(_, _, _)
TreeAt(h, v, seen) ==
  IF ~IsRef(v) THEN v
  ELSE IF v.a \in seen THEN [t |-> "cycle", a |-> v.a]
  ELSE LET o == h[v.a] IN
       IF o.k = "dict"
       THEN Obj([key \in DOMAIN o.m |-> TreeAt(h, o.m[key], seen \cup {v.a})])
       ELSE Arr([i \in 1..Len(o.s) |-> TreeAt(h, o.s[i], seen \cup {v.a})])
TreeOf(h, v) == TreeAt(h, v, {})

\* The references an object holds, each with the access path that leads to
\* it through the object met at f.
Held(h, f) ==
  IF h[f.a].k = "dict" THEN
    {[c |-> Address(f.c.r, f.c.n, Append(f.c.p, key)), a |-> h[f.a].m[key].a] :
       key \in {k \in DOMAIN h[f.a].m : IsRef(h[f.a].m[k])}}
  ELSE
    {[c |-> Address(f.c.r, f.c.n, Append(f.c.p, IndexNames[i])), a |-> h[f.a].s[i].a] :
       i \in {j \in 1..Len(h[f.a].s) : IsRef(h[f.a].s[j])}}

\* The objects reachable from the roots, breadth first: `met` pairs every
\* object (a) with the shortest access paths (c) that lead to it.
RECURSIVE Visit(_, _, _)
Visit(h, frontier, met) ==
  LET Further(new) ==
        IF new = {} THEN met
        ELSE Visit(h, UNION {Held(h, f) : f \in new}, met \cup new)
  IN Further({f \in frontier : ~\E g \in met : g.a = f.a})

\* After every keyword the unreachable objects are dropped and every other
\* object is named by one of its shortest access paths.
Renumber(met, v) ==
  IF IsRef(v) THEN Ref(CHOOSE c \in {g.c : g \in {x \in met : x.a = v.a}} : TRUE) ELSE v
RenumberObject(met, o) ==
  IF o.k = "dict" THEN [k |-> "dict", m |-> [key \in DOMAIN o.m |-> Renumber(met, o.m[key])]]
  ELSE [k |-> "list", s |-> [i \in 1..Len(o.s) |-> Renumber(met, o.s[i])]]
Collect(h, met) ==
  LET Renamed(names) ==
        [c \in {names[a] : a \in DOMAIN names} |->
           RenumberObject(met, h[CHOOSE a \in DOMAIN names : names[a] = c])]
  IN Renamed([a \in {g.a : g \in met} |-> Renumber(met, Ref(a)).a])

(***************************************************************************)
(* Exceptions.  A helper returns a record whose exc field is "ok" or the   *)
(* name of what it raised.  Three of the names are AssertionErrors of the  *)
(* code, told apart by their message (lines 359, 375, 403-409).            *)
(***************************************************************************)
AssertionErrors ==
  {"FieldNotFound", "IndexNotFound", "SchemaValidationError", "SpecValidationError"}

(***************************************************************************)
(* int(key), line 422: the keys of the model that are integer literals,    *)
(* with their value; int() of any other key raises ValueError.             *)
(***************************************************************************)
IntLiterals == ("0" :> 0) @@ ("1" :> 1) @@ ("2" :> 2) @@ ("5" :> 5) @@ ("-1" :> -1)
IsIntLiteral(key) == key \in DOMAIN IntLiterals

\* The characters of the strings of the model that a path can index into.
StrChars == ("ok" :> <<"o", "k">>)

\* json[i] for an int i: Python's subscript of a list, a str or a dict.
\* JSON objects have str keys only, so an int is never a key of a dict.
Subscript(h, json, i) ==
  IF IsList(h, json) THEN
    LET s == h[json.a].s IN
    IF 0 <= i /\ i < Len(s) THEN [exc |-> "ok", v |-> s[i + 1]]
    ELSE IF -Len(s) <= i /\ i < 0 THEN [exc |-> "ok", v |-> s[Len(s) + i + 1]]
    ELSE [exc |-> "IndexError", v |-> Null]
  ELSE IF IsDict(h, json) THEN [exc |-> "KeyError", v |-> Null]
  ELSE IF json.t = "str" THEN
    IF json.c \notin DOMAIN StrChars THEN [exc |-> "Unmodelled", v |-> Null]
    ELSE LET s == StrChars[json.c] IN
    IF 0 <= i /\ i < Len(s) THEN [exc |-> "ok", v |-> JStr(s[i + 1])]
    ELSE IF -Len(s) <= i /\ i < 0 THEN [exc |-> "ok", v |-> JStr(s[Len(s) + i + 1])]
    ELSE [exc |-> "IndexError", v |-> Null]
  ELSE [exc |-> "TypeError", v |-> Null]

\* json[key] for a str key.
Member(h, json, key) ==
  IF IsDict(h, json) THEN
    IF key \in Keys(h, json) THEN [exc |-> "ok", v |-> Get(h, json, key)]
    ELSE [exc |-> "KeyError", v |-> Null]
  ELSE [exc |-> "TypeError", v |-> Null]

\* A lookup that never tries the key as an integer.
_value_by_key_member(h, json, key) == Member(h, json, key)

\* _value_by_key, lines 420-424.
_value_by_key(h, json, key) ==
  IF IsIntLiteral(key) THEN Subscript(h, json, IntLiterals[key])
  ELSE Member(h, json, key)

(***************************************************************************)
(* _new_schema, lines 377-378: genson's Schema().add_object(v).to_dict(),  *)
(* the schema inferred from one value.                                     *)
(***************************************************************************)
TypeName(tree) ==
  CASE tree.t = "null" -> "null"
    [] tree.t = "bool" -> "boolean"
    [] tree.t = "int" -> "integer"
    [] tree.t = "str" -> "string"
    [] tree.t = "obj" -> "object"
    [] tree.t = "arr" -> "array"

RECURSIVE HasCycle(_)
HasCycle(tree) ==
  CASE tree.t = "cycle" -> TRUE
    [] tree.t = "obj" -> \E key \in DOMAIN tree.m : HasCycle(tree.m[key])
    [] tree.t = "arr" -> \E i \in 1..Len(tree.s) : HasCycle(tree.s[i])
    [] OTHER -> FALSE

RECURSIVE Infer(_)
Infer(tree) ==
  CASE tree.t = "obj" ->
         IF DOMAIN tree.m = {} THEN Obj("type" :> JStr("object"))
         ELSE Obj(("type" :> JStr("object")) @@
                  ("properties" :> Obj([key \in DOMAIN tree.m |-> Infer(tree.m[key])])))
    [] tree.t = "arr" ->
         LET Items(each) ==
               IF each = {} THEN Obj("type" :> JStr("array"))
               ELSE IF Cardinality(each) = 1
               THEN Obj(("type" :> JStr("array")) @@ ("items" :> (CHOOSE x \in each : TRUE)))
               ELSE Obj(("type" :> JStr("array")) @@
                        ("items" :> Obj("anyOf" :> Arr(SetToSeq(each)))))
         IN Items({Infer(tree.s[i]) : i \in 1..Len(tree.s)})
    [] OTHER -> Obj("type" :> JStr(TypeName(tree)))

_new_schema(h, json_dict) ==
  LET Made(r) == [h |-> r.h, exc |-> "ok", v |-> r.v]
      From(tree) == IF HasCycle(tree) THEN [h |-> h, exc |-> "RecursionError", v |-> Null]
                    ELSE Made(Alloc(h, Infer(tree)))
  IN From(TreeOf(h, json_dict))

\* Python truth value of a slot (`if x:`).
Truthy(h, v) ==
  CASE v.t = "null" -> FALSE
    [] v.t = "bool" -> v.b
    [] v.t = "int" -> v.i # 0
    [] v.t = "str" -> v.c # ""
    [] v.t = "ref" -> IF h[v.a].k = "dict" THEN DOMAIN h[v.a].m # {} ELSE h[v.a].s # <<>>

\* A _schema_by_key whose stamping keeps the example already there and adds
\* the value to it, instead of overwriting it.
_schema_by_key_accumulating(h, schema, key, value, add_example) ==
  LET Both(h1, inner, list) ==
        [h |-> DictSet(list.h, Get(h1, inner, key), "example", list.v),
         exc |-> "ok", v |-> Get(h1, inner, key)]
      Stamp(h1, inner) ==
        IF ~add_example THEN [h |-> h1, exc |-> "ok", v |-> Get(h1, inner, key)]
        ELSE IF ~IsDict(h1, Get(h1, inner, key)) THEN [h |-> h1, exc |-> "TypeError", v |-> Null]
        ELSE IF Has(h1, Get(h1, inner, key), "example")
        THEN Both(h1, inner,
                  Alloc(h1, Arr(<<TreeOf(h1, Get(h1, Get(h1, inner, key), "example")),
                                  TreeOf(h1, value)>>)))
        ELSE [h |-> DictSet(h1, Get(h1, inner, key), "example", value),
              exc |-> "ok", v |-> Get(h1, inner, key)]
      Store(made, inner) ==
        IF made.exc # "ok" THEN [h |-> h, exc |-> made.exc, v |-> Null]
        ELSE Stamp(DictSet(made.h, inner, key, made.v), inner)
      Within(inner) ==
        IF ~IsDict(h, inner) THEN [h |-> h, exc |-> "TypeError", v |-> Null]
        ELSE IF key \notin Keys(h, inner) THEN Store(_new_schema(h, value), inner)
        ELSE Stamp(h, inner)
  IN IF ~IsDict(h, schema) THEN [h |-> h, exc |-> "TypeError", v |-> Null]
     ELSE IF key \in Keys(h, schema) THEN [h |-> h, exc |-> "ok", v |-> Get(h, schema, key)]
     ELSE Within(IF "properties" \in Keys(h, schema) THEN Get(h, schema, "properties")
                 ELSE IF "items" \in Keys(h, schema) THEN Get(h, schema, "items")
                 ELSE schema)

(***************************************************************************)
(* _schema_by_key, lines 426-436.  `key in schema` and `schema[key]` on a  *)
(* schema that is not a dict (a str, a list, a number) end in a TypeError  *)
(* on every path through the function.                                     *)
(***************************************************************************)
_schema_by_key(h, schema, key, value, add_example) ==
  LET \* lines 434-436
      Stamp(h1, inner) ==
        IF ~add_example THEN [h |-> h1, exc |-> "ok", v |-> Get(h1, inner, key)]
        ELSE IF ~IsDict(h1, Get(h1, inner, key)) THEN [h |-> h1, exc |-> "TypeError", v |-> Null]
        ELSE LET h2 == DictSet(h1, Get(h1, inner, key), "example", value)
             IN [h |-> h2, exc |-> "ok", v |-> Get(h2, inner, key)]
      \* line 433
      Store(made, inner) ==
        IF made.exc # "ok" THEN [h |-> h, exc |-> made.exc, v |-> Null]
        ELSE Stamp(DictSet(made.h, inner, key, made.v), inner)
      \* lines 432-436, `inner` being the schema variable after lines 428-431
      Within(inner) ==
        IF ~IsDict(h, inner) THEN [h |-> h, exc |-> "TypeError", v |-> Null]
        ELSE IF key \notin Keys(h, inner) THEN Store(_new_schema(h, value), inner)
        ELSE Stamp(h, inner)
  IN IF ~IsDict(h, schema) THEN [h |-> h, exc |-> "TypeError", v |-> Null]
     ELSE IF key \in Keys(h, schema) THEN [h |-> h, exc |-> "ok", v |-> Get(h, schema, key)]
     ELSE Within(IF "properties" \in Keys(h, schema) THEN Get(h, schema, "properties")
                 ELSE IF "items" \in Keys(h, schema) THEN Get(h, schema, "items")
                 ELSE schema)

(***************************************************************************)
(* _find_by_field, lines 389-418.  `keys` is field.split().  The loop is   *)
(* FindLoop; trail records the schema variable after every iteration.      *)
(***************************************************************************)
RECURSIVE FindLoop(_, _, _, _, _)
FindLoop(st, keys, i, also_schema, add_example) ==
  LET \* line 414
      Descend(sch, value) ==
        IF sch.exc # "ok" THEN [st EXCEPT !.h = sch.h, !.reality = value, !.exc = sch.exc]
        ELSE FindLoop([st EXCEPT !.h = sch.h, !.reality = value, !.schema = sch.v,
                                 !.trail = Append(@, sch.v)],
                      keys, i + 1, also_schema, add_example)
      \* lines 399-413
      Step(got) ==
        IF got.exc = "KeyError" THEN [st EXCEPT !.exc = "FieldNotFound"]
        ELSE IF got.exc = "IndexError" THEN [st EXCEPT !.exc = "IndexNotFound"]
        ELSE IF got.exc # "ok" THEN [st EXCEPT !.exc = got.exc]
        ELSE IF ~also_schema THEN
          FindLoop([st EXCEPT !.reality = got.v], keys, i + 1, also_schema, add_example)
        ELSE Descend(_schema_by_key(st.h, st.schema, keys[i], got.v, add_example), got.v)
  IN IF i > Len(keys) THEN st ELSE Step(_value_by_key(st.h, st.reality, keys[i]))

_find_by_field(h, insts, keys, also_schema) ==
  IF insts = <<>>
  THEN [h |-> h, exc |-> "IndexError", keys |-> keys, reality |-> Null,
        schema |-> Null, trail |-> <<>>]
  ELSE
    LET value == insts[Len(insts)]
        schema == Get(h, value, "schema")
        add_example == Has(h, schema, "exampled") /\ Truthy(h, Get(h, schema, "exampled"))
    IN FindLoop([h |-> h, exc |-> "ok", keys |-> keys, reality |-> value,
                 schema |-> schema, trail |-> <<>>],
                keys, 1, also_schema, add_example)

(***************************************************************************)
(* Draft4Validator(schema).validate(reality), lines 369 and 373, for the   *)
(* keywords type, enum, minimum, maximum, properties, items, required and  *)
(* anyOf; any other member of a schema is ignored, as Draft-04 does.       *)
(* bad: a ValidationError is found.  err: the validator meets a schema or  *)
(* a keyword argument it cannot use (a schema that is no mapping, an       *)
(* unknown type name) and raises something else.                           *)
(***************************************************************************)
JsonTypes == {"null", "boolean", "integer", "number", "string", "object", "array"}

IsType(name, v) ==
  CASE name = "number" -> v.t = "int"
    [] OTHER -> v.t \in {"null", "bool", "int", "str", "obj", "arr"} /\ TypeName(v) = name

RECURSIVE Check(_, _)
CheckType(ty, v) ==
  IF ty.t = "str" THEN
    IF ty.c \in JsonTypes THEN [bad |-> ~IsType(ty.c, v), err |-> FALSE]
    ELSE [bad |-> FALSE, err |-> TRUE]
  ELSE IF ty.t = "arr" /\ \A i \in 1..Len(ty.s) : ty.s[i].t = "str" /\ ty.s[i].c \in JsonTypes
  THEN [bad |-> ~\E i \in 1..Len(ty.s) : IsType(ty.s[i].c, v), err |-> FALSE]
  ELSE [bad |-> FALSE, err |-> TRUE]
CheckEnum(en, v) ==
  IF en.t = "arr" THEN [bad |-> ~\E i \in 1..Len(en.s) : en.s[i] = v, err |-> FALSE]
  ELSE [bad |-> FALSE, err |-> TRUE]
CheckMinimum(lo, v) ==
  IF v.t # "int" THEN [bad |-> FALSE, err |-> FALSE]
  ELSE IF lo.t # "int" THEN [bad |-> FALSE, err |-> TRUE]
  ELSE [bad |-> v.i < lo.i, err |-> FALSE]
CheckMaximum(hi, v) ==
  IF v.t # "int" THEN [bad |-> FALSE, err |-> FALSE]
  ELSE IF hi.t # "int" THEN [bad |-> FALSE, err |-> TRUE]
  ELSE [bad |-> v.i > hi.i, err |-> FALSE]
CheckRequired(req, v) ==
  IF v.t # "obj" THEN [bad |-> FALSE, err |-> FALSE]
  ELSE IF req.t # "arr" THEN [bad |-> FALSE, err |-> TRUE]
  ELSE [bad |-> \E i \in 1..Len(req.s) : req.s[i].t = "str" /\ req.s[i].c \notin DOMAIN v.m,
        err |-> \E i \in 1..Len(req.s) : req.s[i].t # "str"]
CheckProperties(props, v) ==
  IF v.t # "obj" THEN [bad |-> FALSE, err |-> FALSE]
  ELSE IF props.t # "obj" THEN [bad |-> FALSE, err |-> TRUE]
  ELSE LET both == DOMAIN props.m \cap DOMAIN v.m IN
       [bad |-> \E key \in both : Check(props.m[key], v.m[key]).bad,
        err |-> \E key \in both : Check(props.m[key], v.m[key]).err]
CheckItems(items, v) ==
  IF v.t # "arr" THEN [bad |-> FALSE, err |-> FALSE]
  ELSE IF items.t = "obj" THEN
       [bad |-> \E i \in 1..Len(v.s) : Check(items, v.s[i]).bad,
        err |-> \E i \in 1..Len(v.s) : Check(items, v.s[i]).err]
  ELSE IF items.t = "arr" THEN
       LET n == IF Len(items.s) < Len(v.s) THEN Len(items.s) ELSE Len(v.s) IN
       [bad |-> \E i \in 1..n : Check(items.s[i], v.s[i]).bad,
        err |-> \E i \in 1..n : Check(items.s[i], v.s[i]).err]
  ELSE [bad |-> FALSE, err |-> TRUE]
CheckAnyOf(subs, v) ==
  IF subs.t # "arr" THEN [bad |-> FALSE, err |-> TRUE]
  ELSE [bad |-> \A i \in 1..Len(subs.s) : Check(subs.s[i], v).bad,
        err |-> \E i \in 1..Len(subs.s) : Check(subs.s[i], v).err]
CheckKeyword(name, arg, v) ==
  CASE name = "type" -> CheckType(arg, v)
    [] name = "enum" -> CheckEnum(arg, v)
    [] name = "minimum" -> CheckMinimum(arg, v)
    [] name = "maximum" -> CheckMaximum(arg, v)
    [] name = "required" -> CheckRequired(arg, v)
    [] name = "properties" -> CheckProperties(arg, v)
    [] name = "items" -> CheckItems(arg, v)
    [] name = "anyOf" -> CheckAnyOf(arg, v)
    [] OTHER -> [bad |-> FALSE, err |-> FALSE]
Check(schema, v) ==
  IF schema.t # "obj" THEN [bad |-> FALSE, err |-> TRUE]
  ELSE [bad |-> \E name \in DOMAIN schema.m : CheckKeyword(name, schema.m[name], v).bad,
        err |-> \E name \in DOMAIN schema.m : CheckKeyword(name, schema.m[name], v).err]

(***************************************************************************)
(* _assert_schema, lines 365-375: the set of ways the call can end.  The   *)
(* validator raises the first problem it meets in the iteration order of   *)
(* the schema's members, so with both a ValidationError and a malformed    *)
(* part present either can come first.  The version read is that of the    *)
(* live self.schema (line 367).                                            *)
(***************************************************************************)
SupportedVersion == "draft04"

_assert_schema(h, live, schema, reality) ==
  IF ~Has(h, live, "version") THEN {"KeyError"}
  ELSE IF Get(h, live, "version") # JStr(SupportedVersion) THEN {"UnknownSchemaVersion"}
  ELSE LET Verdict(c) ==
             IF ~c.bad /\ ~c.err THEN {"ok"}
             ELSE {e \in {"SchemaValidationError", "ValidatorError"} :
                     \/ e = "SchemaValidationError" /\ c.bad
                     \/ e = "ValidatorError" /\ c.err}
       IN Verdict(Check(TreeOf(h, schema), TreeOf(h, reality)))

(***************************************************************************)
(* _validate_schema, lines 361-363.  The loop ends at the first field that *)
(* raises; json_dict[field] raises KeyError for a field the exchange does  *)
(* not have.  The iteration order of the dictionary is the order in which  *)
(* the fields were first declared, which the model does not keep: any      *)
(* field that raises can be the first one met.                             *)
(***************************************************************************)
FieldOutcomes(h, live, schema, json_dict, field) ==
  IF ~Has(h, json_dict, field) THEN {"KeyError"}
  ELSE _assert_schema(h, live, Get(h, schema, field), Get(h, json_dict, field))

_validate_schema(h, live, schema, json_dict) ==
  LET fields == Keys(h, schema)
      raised == UNION {FieldOutcomes(h, live, schema, json_dict, f) \ {"ok"} : f \in fields}
  IN raised \cup
     (IF \A f \in fields : "ok" \in FieldOutcomes(h, live, schema, json_dict, f)
      THEN {"ok"} ELSE {})

\* A deepcopy that copies nothing: the caller gets the very object it passed.
deepcopy_alias(h, v) == [h |-> h, v |-> v]

\* copy.deepcopy of the value in a slot: fresh objects with the same content.
deepcopy(h, v) == Alloc(h, TreeOf(h, v))

(***************************************************************************)
(* _generate_schema_examples, lines 380-387.  The example slot receives    *)
(* the very object held by the response body (no copy is made).            *)
(***************************************************************************)
RECURSIVE StampFields(_, _, _, _)
StampFields(h, props, body, fields) ==
  IF fields = <<>> THEN h
  ELSE StampFields(DictSet(h, Get(h, props, Head(fields)), "example",
                           Get(h, body, Head(fields))),
                   props, body, Tail(fields))

_generate_schema_examples(h, schema, response) ==
  LET body == Get(h, response, "body")
      node == Get(h, Get(h, schema, "response"), "body")
  IN IF IsDict(h, body) THEN
       IF Keys(h, body) = {} THEN h
       ELSE StampFields(h, Get(h, node, "properties"), body, SetToSeq(Keys(h, body)))
     ELSE IF IsList(h, body) THEN DictSet(h, node, "example", body)
     ELSE h

(***************************************************************************)
(* _instantiate, lines 319-352.  `request` is the slot of the merged       *)
(* request, `raw` the transport's response [status, body, headers] with    *)
(* the body already parsed (response.json(), or response.text when that    *)
(* raises ValueError), spec_ok the verdict of the API-spec validator.      *)
(* The result is the set of ways the call can end: [h, exc, v, insts].     *)
(***************************************************************************)
\* A failure that leaves an instance behind: the append made before the checks.
Raise_recording(h, insts, e) ==
  LET Left(inst) == [h |-> inst.h, exc |-> e, v |-> Null, insts |-> Append(insts, inst.v)]
  IN Left(Alloc(h, Obj(EmptyMap)))

Raise(h, insts, e) == [h |-> h, exc |-> e, v |-> Null, insts |-> insts]

\* A recorder that refreshes the fragment of the response only.
SetInferred_response_only(h, schema, part, source, name) ==
  LET Store(b) == DictSet(b.h, Get(b.h, schema, part), name, b.v)
  IN IF part = "response" /\ Has(h, source, name)
     THEN Store(_new_schema(h, Get(h, source, name))) ELSE h

\* lines 337-342: schema[part][name] = self._new_schema(source[name])
SetInferred(h, schema, part, source, name) ==
  LET Store(b) == DictSet(b.h, Get(b.h, schema, part), name, b.v)
  IN IF Has(h, source, name) THEN Store(_new_schema(h, Get(h, source, name))) ELSE h

\* lines 343-344
Exampled(h, schema, response) ==
  IF Has(h, schema, "exampled") /\ Truthy(h, Get(h, schema, "exampled"))
  THEN _generate_schema_examples(h, schema, response) ELSE h

\* An append that replaces the history by the new instance.
Instance_replacing(h, spec, insts, request, response, schema) ==
  LET Filled(inst) ==
        [h |-> DictUpdate(inst.h, inst.v,
                          ("request" :> request) @@ ("response" :> response) @@
                          ("schema" :> schema) @@ ("spec" :> spec)),
         exc |-> "ok", v |-> inst.v, insts |-> <<inst.v>>]
  IN Filled(Alloc(h, Obj(EmptyMap)))

\* An instance that is built and returned but not appended.
Instance_unrecorded(h, spec, insts, request, response, schema) ==
  LET Filled(inst) ==
        [h |-> DictUpdate(inst.h, inst.v,
                          ("request" :> request) @@ ("response" :> response) @@
                          ("schema" :> schema) @@ ("spec" :> spec)),
         exc |-> "ok", v |-> inst.v, insts |-> insts]
  IN Filled(Alloc(h, Obj(EmptyMap)))

\* lines 345-352
Instance(h, spec, insts, request, response, schema) ==
  LET Filled(inst) ==
        [h |-> DictUpdate(inst.h, inst.v,
                          ("request" :> request) @@ ("response" :> response) @@
                          ("schema" :> schema) @@ ("spec" :> spec)),
         exc |-> "ok", v |-> inst.v, insts |-> Append(insts, inst.v)]
  IN Filled(Alloc(h, Obj(EmptyMap)))

\* lines 337-352, after the declared schemas have been validated
Record(h, spec, insts, request, response, schema) ==
  Instance(Exampled(SetInferred(SetInferred(SetInferred(h, schema, "response", response, "body"),
                                            schema, "request", request, "body"),
                                schema, "request", request, "query"),
                    schema, response),
           spec, insts, request, response, schema)

_instantiate(h, live, spec, insts, request, raw, spec_ok) ==
  LET \* how lines 333-352 end, given how the two validations can end
      Ends(reqOut, respOut, h0, response, schema) ==
        {Raise(h, insts, e) : e \in reqOut \ {"ok"}}
        \cup (IF "ok" \in reqOut THEN {Raise(h, insts, e) : e \in respOut \ {"ok"}} ELSE {})
        \cup (IF "ok" \in reqOut /\ "ok" \in respOut
              THEN {Record(h0, spec, insts, request, response, schema)} ELSE {})
      \* lines 333-336
      Validated(copy, response) ==
        Ends(IF Truthy(copy.h, Get(copy.h, copy.v, "request"))
             THEN _validate_schema(copy.h, live, Get(copy.h, copy.v, "request"), request)
             ELSE {"ok"},
             IF Truthy(copy.h, Get(copy.h, copy.v, "response"))
             THEN _validate_schema(copy.h, live, Get(copy.h, copy.v, "response"), response)
             ELSE {"ok"},
             copy.h, response, copy.v)
      \* line 332
      Copied(resp) == Validated(deepcopy(resp.h, live), resp.v)
  IN IF Truthy(h, spec) /\ ~spec_ok THEN {Raise(h, insts, "SpecValidationError")}
     ELSE Copied(Alloc(h, Obj(("status" :> raw.status) @@ ("seconds" :> JInt(0)) @@
                              ("body" :> raw.body) @@ ("headers" :> raw.headers))))

(***************************************************************************)
(* _request, lines 286-317.  `fields` maps the names the HTTP keyword      *)
(* passes to their values.  The endpoint computed on lines 289-297 goes to *)
(* the transport only; request['endpoint'] keeps the caller's text.  `now` *)
(* is the reading of the clock on line 312.                                *)
(***************************************************************************)
Timestamp(now) == Obj(("utc" :> JInt(now)) @@ ("local" :> JInt(now)))

\* A _request that merges the fields of the call into self.request itself.
_request_in_place(h, template, live, spec, insts, fields, raw, spec_ok, now) ==
  LET Stamped(stamp, request) ==
        _instantiate(DictSet(stamp.h, request, "timestamp", stamp.v),
                     live, spec, insts, request, raw, spec_ok)
      Updated(given, request) ==
        Stamped(Alloc(DictUpdate(given.h, request, given.h[given.v.a].m), Timestamp(now)),
                request)
  IN Updated(Alloc(h, Obj(fields)), template)

_request(h, template, live, spec, insts, fields, raw, spec_ok, now) ==
  LET \* lines 312-317
      Stamped(stamp, request) ==
        _instantiate(DictSet(stamp.h, request, "timestamp", stamp.v),
                     live, spec, insts, request, raw, spec_ok)
      \* line 288
      Updated(given, request) ==
        Stamped(Alloc(DictUpdate(given.h, request, given.h[given.v.a].m), Timestamp(now)),
                request)
      \* line 287
      Copied(copy) == Updated(Alloc(copy.h, Obj(fields)), copy.v)
  IN Copied(deepcopy(h, template))

(***************************************************************************)
(* SCHEMA_KEYWORDS (imported on line 17 from schema_keywords, which is not *)
(* among the sources): the validation keywords allowed for each type under *)
(* each schema version, and those common to all types.                     *)
(***************************************************************************)
SCHEMA_KEYWORDS ==
  [common  |-> [draft04 |-> {"enum", "type", "title", "description", "default"}],
   null    |-> [draft04 |-> {}],
   boolean |-> [draft04 |-> {}],
   integer |-> [draft04 |-> {"minimum", "maximum", "exclusiveMinimum",
                             "exclusiveMaximum", "multipleOf"}],
   number  |-> [draft04 |-> {"minimum", "maximum", "exclusiveMinimum",
                             "exclusiveMaximum", "multipleOf"}],
   string  |-> [draft04 |-> {"minLength", "maxLength", "pattern", "format"}],
   object  |-> [draft04 |-> {"minProperties", "maxProperties", "required",
                             "properties", "additionalProperties"}],
   array   |-> [draft04 |-> {"minItems", "maxItems", "uniqueItems", "items"}]]

(***************************************************************************)
(* _set_type_validations, lines 438-448.  `validations` is the sequence of *)
(* the named arguments [name, arg] left after skip was popped, in the      *)
(* order the caller wrote them.  A recognized keyword met before an        *)
(* unrecognized one has already been stored when the error is raised.      *)
(***************************************************************************)
RECURSIVE SetValidations(_, _, _, _, _)
SetValidations(h, kws, schema, validations, i) ==
  IF i > Len(validations) THEN [h |-> h, exc |-> "ok"]
  ELSE IF validations[i].name \notin kws THEN [h |-> h, exc |-> "UnknownValidationKeyword"]
  ELSE IF ~IsDict(h, schema) THEN [h |-> h, exc |-> "TypeError"]
  ELSE LET Rest(arg) == SetValidations(DictSet(arg.h, schema, validations[i].name, arg.v),
                                       kws, schema, validations, i + 1)
       IN Rest(Alloc(h, validations[i].arg))

_set_type_validations(h, live, json_type, schema, validations) ==
  LET version == Get(h, live, "version")
      known == version.t = "str" /\ version.c \in DOMAIN SCHEMA_KEYWORDS.common
      kws == SCHEMA_KEYWORDS.common[version.c] \cup SCHEMA_KEYWORDS[json_type][version.c]
      \* line 448
      Update(set) ==
        IF set.exc # "ok" THEN set
        ELSE IF ~IsDict(set.h, schema) THEN [h |-> set.h, exc |-> "AttributeError"]
        ELSE [h |-> DictSet(set.h, schema, "type", JStr(json_type)), exc |-> "ok"]
  IN IF validations # <<>> /\ ~known THEN [h |-> h, exc |-> "KeyError"]
     ELSE Update(SetValidations(h, kws, schema, validations, 1))

(***************************************************************************)
(* The assertion keywords.  Each operator gives the set of ways the call   *)
(* can end: [h, exc, value, found], value being what the keyword returns.  *)
(***************************************************************************)
Ended(h, e, found) ==
  [h |-> h, exc |-> e, value |-> IF e = "ok" THEN found.reality ELSE Null, found |-> found]

\* missing, lines 144-148
Missing(h, insts, keys) ==
  LET Found(found) == {Ended(found.h, found.exc, found)}
  IN Found(_find_by_field(h, insts, keys, TRUE))

\* null, lines 150-158, and boolean, lines 160-171: the schema asserted is
\* built by the keyword; `enum` is <<>> or the one expected value
Literal(h, live, insts, json_type, keys, enum, skip) ==
  LET Asserted(schema, found) ==
        {Ended(found.h, e, found) :
           e \in _assert_schema(schema.h, live, schema.v, found.reality)}
      Found(found) ==
        IF found.exc # "ok" THEN {Ended(found.h, found.exc, found)}
        ELSE IF skip THEN {Ended(found.h, "ok", found)}
        ELSE Asserted(Alloc(found.h,
                            Obj(IF enum = <<>> THEN "type" :> JStr(json_type)
                                ELSE ("type" :> JStr(json_type)) @@ ("enum" :> Arr(enum)))),
                      found)
  IN Found(_find_by_field(h, insts, keys, TRUE))

\* integer, number, string, object, array, lines 173-246
Typed(h, live, insts, json_type, keys, enum, validations, skip) ==
  LET Asserted(h1, found) ==
        IF skip THEN {Ended(h1, "ok", found)}
        ELSE {Ended(h1, e, found) :
                e \in _assert_schema(h1, live, found.schema, found.reality)}
      WithEnum(list, found) ==
        Asserted(DictSet(list.h, found.schema, "enum", list.v), found)
      Validations(set, found) ==
        IF set.exc # "ok" THEN {Ended(set.h, set.exc, found)}
        ELSE IF enum # <<>> THEN WithEnum(Alloc(set.h, Arr(enum)), found)
        ELSE Asserted(set.h, found)
      Found(found) ==
        IF found.exc # "ok" THEN {Ended(found.h, found.exc, found)}
        ELSE Validations(_set_type_validations(found.h, live, json_type, found.schema,
                                               validations),
                         found)
  IN Found(_find_by_field(h, insts, keys, TRUE))

\* output, lines 256-271.  With no `what` the value is instances[-1], which
\* is where _find_by_field starts.  io_ok: whether the file, when one is
\* named, can be written.
Output(h, insts, what, to_file, io_ok) ==
  LET Found(found) ==
        IF found.exc # "ok" THEN {Ended(found.h, found.exc, found)}
        ELSE IF HasCycle(TreeOf(found.h, found.reality))
        THEN {Ended(found.h, "ValueError", found)}
        ELSE IF to_file /\ ~io_ok THEN {Ended(found.h, "RuntimeError", found)}
        ELSE {Ended(found.h, "ok", found)}
  IN Found(_find_by_field(h, insts, what, FALSE))

(***************************************************************************)
(* The session.  self.request and self.schema are set by the constructor   *)
(* (not among the sources): the request template holds every field that    *)
(* lines 298-311 read and no HTTP keyword sets; the SchemaStore holds the  *)
(* two sub-maps read on lines 333-342 and the version and exampled flags.  *)
(***************************************************************************)
DefaultRequest ==
  Obj(("method" :> Null) @@ ("endpoint" :> Null) @@ ("query" :> Obj(EmptyMap)) @@
      ("body" :> Null) @@ ("headers" :> Obj(EmptyMap)) @@ ("proxies" :> Obj(EmptyMap)) @@
      ("auth" :> Null) @@ ("cert" :> Null) @@ ("timeout" :> Null) @@
      ("redirects" :> JBool(TRUE)) @@ ("ssl_verify" :> JBool(TRUE)))

DefaultSchema(exampled) ==
  Obj(("request" :> Obj(EmptyMap)) @@ ("response" :> Obj(EmptyMap)) @@
      ("version" :> JStr(SupportedVersion)) @@ ("exampled" :> JBool(exampled)))

\* What the last keyword did: its name, the field path it was given, how it
\* ended, what it returned, the schema variable of _find_by_field, for an
\* HTTP keyword the body the transport delivered, and `before`: the name,
\* field path and ending of the keyword called before it, when that one was
\* given a field path.  `args`: the other arguments of an assertion keyword,
\* the positional values (*enum, or the value of boolean), the named
\* arguments left after skip was popped, in the caller's order, and skip.
NoArgs == [enum |-> <<>>, validations |-> <<>>, skip |-> FALSE]
Args(enum, validations, skip) == [enum |-> enum, validations |-> validations, skip |-> skip]
NoFound == [keys |-> <<>>, reality |-> Null, schema |-> Null, trail |-> <<>>]
NoField == [op |-> "", field |-> <<>>, exc |-> ""]
Result(op, exc, value, found) ==
  [op |-> op, field |-> found.keys, exc |-> exc, value |-> value,
   schema |-> found.schema, trail |-> found.trail, raw |-> Null, before |-> NoField,
   args |-> NoArgs]

\* What the session holds on to: self.request, self.schema, the instances,
\* and what the last keyword returned.
Roots(req, sch, insts, r) ==
  LET held == {[c |-> Address("request", 0, <<>>), v |-> req],
               [c |-> Address("schema", 0, <<>>), v |-> sch],
               [c |-> Address("value", 0, <<>>), v |-> r.value],
               [c |-> Address("found", 0, <<>>), v |-> r.schema]}
              \cup {[c |-> Address("instances", i, <<>>), v |-> insts[i]] : i \in 1..Len(insts)}
              \cup {[c |-> Address("trail", i, <<>>), v |-> r.trail[i]] : i \in 1..Len(r.trail)}
  IN {[c |-> x.c, a |-> x.v.a] : x \in {y \in held : IsRef(y.v)}}

\* The session after a keyword: the heap collected, the objects renamed.
Settle(h, req, sch, spec, insts, n, r) ==
  LET Collected(met) ==
        [heap |-> Collect(h, met),
         self_request |-> Renumber(met, req),
         self_schema |-> Renumber(met, sch),
         self_spec |-> spec,
         instances |-> [i \in 1..Len(insts) |-> Renumber(met, insts[i])],
         exchanges |-> n,
         ret |-> [r EXCEPT !.value = Renumber(met, @), !.schema = Renumber(met, @),
                           !.trail = [i \in 1..Len(@) |-> Renumber(met, @[i])]]]
  IN Collected(Visit(h, Roots(req, sch, insts, r), {}))

\* A keyword ends in one of the sessions of `ends`.
Finish(ends) ==
  \E s \in ends :
    /\ heap' = s.heap
    /\ self_request' = s.self_request
    /\ self_schema' = s.self_schema
    /\ self_spec' = s.self_spec
    /\ instances' = s.instances
    /\ exchanges' = s.exchanges
    /\ ret' = [s.ret EXCEPT !.before = IF ret.field = <<>> THEN NoField
                                        ELSE [op |-> ret.op, field |-> ret.field,
                                              exc |-> ret.exc]]

Constructed(exampled) ==
  LET WithSchema(r, s) ==
        Settle(s.h, r.v, s.v, Null, <<>>, 0, Result("init", "ok", Null, NoFound))
      WithRequest(r) == WithSchema(r, Alloc(r.h, DefaultSchema(exampled)))
  IN WithRequest(Alloc(<<>>, DefaultRequest))

\* A test case is a finite sequence of keyword calls: `pending` is the
\* number of calls it has still to make.
Start(keywords) ==
  \E exampled \in BOOLEAN :
    \E s \in {Constructed(exampled)} :
       /\ heap = s.heap
       /\ self_request = s.self_request
       /\ self_schema = s.self_schema
       /\ self_spec = s.self_spec
       /\ instances = s.instances
       /\ exchanges = s.exchanges
       /\ ret = s.ret
       /\ pending = keywords

Called == pending > 0 /\ pending' = pending - 1

\* Settings, lines 28-41
set_basic_auth(auth) ==
  /\ Called
  /\ LET a == Alloc(heap, auth)
     IN Finish({Settle(DictSet(a.h, self_request, "auth", a.v), self_request, self_schema,
                        self_spec, instances, exchanges,
                        Result("set_basic_auth", "ok", self_request, NoFound))})

set_client_cert(cert) ==
  /\ Called
  /\ LET a == Alloc(heap, cert)
     IN Finish({Settle(DictSet(a.h, self_request, "cert", a.v), self_request, self_schema,
                        self_spec, instances, exchanges,
                        Result("set_client_cert", "ok", self_request, NoFound))})

set_headers(headers) ==
  /\ Called
  /\ LET a == Alloc(heap, headers)
     IN Finish({Settle(DictUpdate(a.h, Get(a.h, self_request, "headers"), a.h[a.v.a].m),
                        self_request, self_schema, self_spec, instances, exchanges,
                        Result("set_headers", "ok", self_request, NoFound))})

\* Expectations, lines 45-58
expect_request(schema) ==
  /\ Called
  /\ LET a == Alloc(heap, schema)
     IN Finish({Settle(DictUpdate(a.h, Get(a.h, self_schema, "request"), a.h[a.v.a].m),
                        self_request, self_schema, self_spec, instances, exchanges,
                        Result("expect_request", "ok", Get(heap, self_schema, "request"),
                               NoFound))})

expect_response(schema) ==
  /\ Called
  /\ LET a == Alloc(heap, schema)
     IN Finish({Settle(DictUpdate(a.h, Get(a.h, self_schema, "response"), a.h[a.v.a].m),
                        self_request, self_schema, self_spec, instances, exchanges,
                        Result("expect_response", "ok", Get(heap, self_schema, "response"),
                               NoFound))})

expect_spec(spec) ==
  /\ Called
  /\ Finish({Settle(heap, self_request, self_schema, JStr(spec), instances, exchanges,
                    Result("expect_spec", "ok", JStr(spec), NoFound))})

(***************************************************************************)
(* HTTP keywords, lines 62-140.  raw is what the transport gives back:     *)
(* [ok, status, body, headers]; with ok false the client raised (refused   *)
(* connection, timeout) and the error propagates.  `exchanges` counts the  *)
(* responses delivered, and the clock read after a delivery is the number  *)
(* of that delivery.  The keyword passes no timeout here (timeout=None,    *)
(* line 68), and redirects=True.                                           *)
(***************************************************************************)
Call(op, fields, raw, spec_ok) ==
  Finish(IF ~raw.ok
         THEN {Settle(heap, self_request, self_schema, self_spec, instances, exchanges,
                      Result(op, "TransportError", Null, NoFound))}
         ELSE {Settle(r.h, self_request, self_schema, self_spec, r.insts, exchanges + 1,
                      [Result(op, r.exc,
                              IF r.exc = "ok" THEN Get(r.h, r.v, "response") ELSE Null,
                              NoFound) EXCEPT !.raw = raw.body]) :
                 r \in _request(heap, self_request, self_schema, self_spec, instances,
                                fields, raw, spec_ok, exchanges + 1)})

Plain(method, endpoint) ==
  ("method" :> JStr(method)) @@ ("endpoint" :> JStr(endpoint)) @@ ("redirects" :> JBool(TRUE))

head(endpoint, raw, spec_ok) ==
  /\ Called
  /\ Call("head", Plain("HEAD", endpoint), raw, spec_ok)
options(endpoint, raw, spec_ok) ==
  /\ Called
  /\ Call("options", Plain("OPTIONS", endpoint), raw, spec_ok)
get(endpoint, query, raw, spec_ok) ==
  /\ Called
  /\ Call("get", Plain("GET", endpoint) @@ ("query" :> Obj(query)), raw, spec_ok)
post(endpoint, body, raw, spec_ok) ==
  /\ Called
  /\ Call("post", Plain("POST", endpoint) @@ ("body" :> body), raw, spec_ok)
put(endpoint, body, raw, spec_ok) ==
  /\ Called
  /\ Call("put", Plain("PUT", endpoint) @@ ("body" :> body), raw, spec_ok)
patch(endpoint, body, raw, spec_ok) ==
  /\ Called
  /\ Call("patch", Plain("PATCH", endpoint) @@ ("body" :> body), raw, spec_ok)
delete(endpoint, raw, spec_ok) ==
  /\ Called
  /\ Call("delete", Plain("DELETE", endpoint), raw, spec_ok)

(***************************************************************************)
(* Assertion keywords, lines 144-246, output and rest_instances.           *)
(***************************************************************************)
Assertion(op, args, ends) ==
  Finish({Settle(r.h, self_request, self_schema, self_spec, instances, exchanges,
                 [Result(op, r.exc, r.value, r.found) EXCEPT !.args = args]) : r \in ends})

missing(field) ==
  /\ Called
  /\ Assertion("missing", NoArgs, Missing(heap, instances, field))
\* null and boolean take **validations and read nothing of it but skip
null(field, validations, skip) ==
  /\ Called
  /\ Assertion("null", Args(<<>>, validations, skip),
               Literal(heap, self_schema, instances, "null", field, <<>>, skip))
boolean(field, value, validations, skip) ==
  /\ Called
  /\ Assertion("boolean", Args(value, validations, skip),
               Literal(heap, self_schema, instances, "boolean", field, value, skip))
integer(field, enum, validations, skip) ==
  /\ Called
  /\ Assertion("integer", Args(enum, validations, skip),
               Typed(heap, self_schema, instances, "integer", field, enum, validations, skip))
number(field, enum, validations, skip) ==
  /\ Called
  /\ Assertion("number", Args(enum, validations, skip),
               Typed(heap, self_schema, instances, "number", field, enum, validations, skip))
string(field, enum, validations, skip) ==
  /\ Called
  /\ Assertion("string", Args(enum, validations, skip),
               Typed(heap, self_schema, instances, "string", field, enum, validations, skip))
object(field, enum, validations, skip) ==
  /\ Called
  /\ Assertion("object", Args(enum, validations, skip),
               Typed(heap, self_schema, instances, "object", field, enum, validations, skip))
array(field, enum, validations, skip) ==
  /\ Called
  /\ Assertion("array", Args(enum, validations, skip),
               Typed(heap, self_schema, instances, "array", field, enum, validations, skip))
output(what, to_file, io_ok) ==
  /\ Called
  /\ Assertion("output", NoArgs, Output(heap, instances, what, to_file, io_ok))

\* rest_instances, lines 273-284: writes {url, instances} to a file
rest_instances(io_ok) ==
  /\ Called
  /\ Finish({Settle(heap, self_request, self_schema, self_spec, instances, exchanges,
                    Result("rest_instances",
                           IF \E i \in 1..Len(instances) : HasCycle(TreeOf(heap, instances[i]))
                           THEN "ValueError" ELSE IF io_ok THEN "ok" ELSE "RuntimeError",
                           Null, NoFound))})

(***************************************************************************)
(* The inputs the keywords are called with.                                *)
(***************************************************************************)
Endpoints == {"/users"}

BodyObject == Obj("a" :> Obj("b" :> JInt(1)))
BodyArray == Arr(<<JInt(10), JInt(20), JInt(30)>>)
BodyTyped == Obj("type" :> JInt(5))
BodyText == JStr("ok")

Delivered(body) == [ok |-> TRUE, status |-> JInt(200), body |-> body, headers |-> Obj(EmptyMap)]
NoResponse == [ok |-> FALSE, status |-> Null, body |-> Null, headers |-> Null]
Deliveries(bodies) == {Delivered(b) : b \in bodies}

Queries == {EmptyMap}
RequestBodies == {Null}

AuthInputs == {Arr(<<JStr("u"), JStr("p")>>)}
CertInputs == {JStr("c.pem")}
HeaderInputs == {Obj("Accept" :> JStr("json"))}
SpecInputs == {"api.json"}

ExpectRequestInputs == {Obj("method" :> Obj("enum" :> Arr(<<JStr("GET")>>)))}
ExpectResponseInputs ==
  {Obj("body" :> Obj("type" :> JStr("object"))),
   Obj("foo" :> Obj("type" :> JStr("string")))}

Settings ==
  \/ \E auth \in AuthInputs : set_basic_auth(auth)
  \/ \E cert \in CertInputs : set_client_cert(cert)
  \/ \E headers \in HeaderInputs : set_headers(headers)

Expectations ==
  \/ \E schema \in ExpectRequestInputs : expect_request(schema)
  \/ \E schema \in ExpectResponseInputs : expect_response(schema)
  \/ \E spec \in SpecInputs : expect_spec(spec)

\* Every HTTP keyword runs the same _request; the bodies the transport
\* delivers are spread over the keywords.  spec_ok is the verdict the
\* API-spec validator would give; it is consulted only when a spec is set.
HttpCalls ==
  \/ \E endpoint \in Endpoints, raw \in Deliveries({BodyObject}),
        spec_ok \in BOOLEAN :
       head(endpoint, raw, spec_ok)
  \/ \E endpoint \in Endpoints, raw \in Deliveries({BodyObject}),
        spec_ok \in BOOLEAN :
       options(endpoint, raw, spec_ok)
  \/ \E endpoint \in Endpoints, query \in Queries,
        raw \in Deliveries({BodyObject, BodyArray}) \cup {NoResponse},
        spec_ok \in BOOLEAN :
       get(endpoint, query, raw, spec_ok)
  \/ \E endpoint \in Endpoints, body \in RequestBodies, raw \in Deliveries({BodyArray}),
        spec_ok \in BOOLEAN :
       post(endpoint, body, raw, spec_ok)
  \/ \E endpoint \in Endpoints, body \in RequestBodies, raw \in Deliveries({BodyArray}),
        spec_ok \in BOOLEAN :
       put(endpoint, body, raw, spec_ok)
  \/ \E endpoint \in Endpoints, body \in RequestBodies, raw \in Deliveries({BodyArray}),
        spec_ok \in BOOLEAN :
       patch(endpoint, body, raw, spec_ok)
  \/ \E endpoint \in Endpoints, raw \in Deliveries({BodyObject}),
        spec_ok \in BOOLEAN :
       delete(endpoint, raw, spec_ok)

(***************************************************************************)
(* Spec: the recorder.  A test case of MaxKeywords calls that declares     *)
(* expectations and makes HTTP calls, in any order.                        *)
(***************************************************************************)
MaxKeywords == 3

Init == Start(MaxKeywords)

Next == Expectations \/ HttpCalls

Spec == Init /\ [][Next]_vars

(***************************************************************************)
(* SpecSession: a test case of MaxSessionKeywords calls of any keywords.   *)
(***************************************************************************)
MaxSessionKeywords == 3

SessionFields == {<<"response", "body">>, <<"response", "body", "a">>}

SessionAssertions ==
  \E field \in SessionFields :
    \/ missing(field)
    \/ null(field, <<>>, FALSE)
    \/ boolean(field, <<>>, <<>>, FALSE)
    \/ integer(field, <<>>, <<>>, FALSE)
    \/ number(field, <<>>, <<>>, FALSE)
    \/ string(field, <<>>, <<>>, FALSE)
    \/ object(field, <<>>, <<>>, FALSE)
    \/ array(field, <<>>, <<>>, FALSE)

Exports ==
  \/ \E what \in {<<>>, <<"response", "body">>}, to_file \in BOOLEAN :
       \E io_ok \in IF to_file THEN BOOLEAN ELSE {TRUE} : output(what, to_file, io_ok)
  \/ \E io_ok \in BOOLEAN : rest_instances(io_ok)

InitSession == Start(MaxSessionKeywords)

NextSession == Settings \/ Expectations \/ HttpCalls \/ SessionAssertions \/ Exports

SpecSession == InitSession /\ [][NextSession]_vars

(***************************************************************************)
(* SpecResolve: field resolution.  A test case of MaxResolveKeywords calls *)
(* that gets a body and addresses fields of the last instance.             *)
(***************************************************************************)
MaxResolveKeywords == 3

ResolveFields ==
  {<<"response", "body">>, <<"response", "body", "a">>, <<"response", "body", "a", "b">>,
   <<"response", "body", "a", "c">>, <<"response", "body", "1">>, <<"response", "body", "5">>,
   <<"response", "body", "-1">>, <<"response", "body", "type">>,
   <<"response", "status", "x">>, <<"response", "body", "b">>}

ResolveCalls ==
  \E endpoint \in Endpoints, query \in Queries,
     raw \in Deliveries({BodyObject, BodyArray, BodyTyped, BodyText}) :
    get(endpoint, query, raw, TRUE)

Resolutions ==
  \E field \in ResolveFields :
    \/ missing(field)
    \/ output(field, FALSE, TRUE)

InitResolve == Start(MaxResolveKeywords)

NextResolve == ResolveCalls \/ Resolutions

SpecResolve == InitResolve /\ [][NextResolve]_vars

(***************************************************************************)
(* SpecAssert: the assertion keywords.  A test case of MaxAssertKeywords   *)
(* calls that gets a body and calls an assertion or lookup keyword with    *)
(* named validations (recognized, unrecognized, mixed) and with skip.      *)
(***************************************************************************)
MaxAssertKeywords == 2

BodyExampled == Obj("a" :> Obj("example" :> JInt(1)))

AssertFields ==
  {<<"response", "body", "a", "b">>, <<"response", "body", "a">>,
   <<"response", "body", "type">>, <<"response", "body", "a", "example">>}

Validation(name, arg) == [name |-> name, arg |-> arg]
Bogus == Validation("bogus", JBool(TRUE))
InRange == <<Validation("minimum", JInt(0)), Validation("maximum", JInt(5))>>
OutOfRange == <<Validation("minimum", JInt(2)), Validation("maximum", JInt(5))>>

\* the named arguments given to the keyword of each type
ValidationInputs ==
  [null    |-> {<<>>, <<Bogus>>},
   boolean |-> {<<>>, <<Bogus>>},
   integer |-> {<<>>, InRange, <<Validation("minimum", JInt(0)), Bogus>>},
   number  |-> {<<>>, <<Validation("maximum", JInt(5)), Bogus>>},
   string  |-> {<<>>, <<Validation("pattern", JStr("^a")), Bogus>>},
   object  |-> {<<>>, <<Validation("minProperties", JInt(1)), Bogus>>},
   array   |-> {<<>>, <<Validation("minItems", JInt(1)), Bogus>>}]

AssertCalls ==
  \E endpoint \in Endpoints, query \in Queries,
     raw \in Deliveries({BodyObject, BodyTyped, BodyExampled}) :
    get(endpoint, query, raw, TRUE)

TypeAssertions ==
  \/ \E field \in AssertFields, validations \in ValidationInputs.null, skip \in BOOLEAN :
       null(field, validations, skip)
  \/ \E field \in AssertFields, validations \in ValidationInputs.boolean, skip \in BOOLEAN :
       boolean(field, <<>>, validations, skip)
  \/ \E field \in AssertFields, enum \in {<<>>, <<JInt(7)>>},
        validations \in ValidationInputs.integer, skip \in BOOLEAN :
       integer(field, enum, validations, skip)
  \/ \E field \in AssertFields, validations \in ValidationInputs.number, skip \in BOOLEAN :
       number(field, <<>>, validations, skip)
  \/ \E field \in AssertFields, validations \in ValidationInputs.string, skip \in BOOLEAN :
       string(field, <<>>, validations, skip)
  \/ \E field \in AssertFields, validations \in ValidationInputs.object, skip \in BOOLEAN :
       object(field, <<>>, validations, skip)
  \/ \E field \in AssertFields, validations \in ValidationInputs.array, skip \in BOOLEAN :
       array(field, <<>>, validations, skip)

Lookups ==
  \/ \E field \in AssertFields : missing(field)
  \/ \E field \in AssertFields : output(field, FALSE, TRUE)

InitAssert == Start(MaxAssertKeywords)

NextAssert == AssertCalls \/ TypeAssertions \/ Lookups

SpecAssert == InitAssert /\ [][NextAssert]_vars

(***************************************************************************)
(* SpecRepeat: repeated assertions on one field.  A test case of           *)
(* MaxRepeatKeywords calls that gets {"a": {"b": 1}} and asserts the       *)
(* integer at a.b several times, with and without enum values and bounds.  *)
(***************************************************************************)
MaxRepeatKeywords == 3

RepeatCalls ==
  \E endpoint \in Endpoints, query \in Queries, raw \in Deliveries({BodyObject}) :
    get(endpoint, query, raw, TRUE)

RepeatAssertions ==
  \E enum \in {<<>>, <<JInt(1)>>, <<JInt(7)>>}, validations \in {<<>>, InRange, OutOfRange} :
    integer(<<"response", "body", "a", "b">>, enum, validations, FALSE)

InitRepeat == Start(MaxRepeatKeywords)

NextRepeat == RepeatCalls \/ RepeatAssertions

SpecRepeat == InitRepeat /\ [][NextRepeat]_vars

(***************************************************************************)
(* SpecVersion: the schema version.  The constructor (not among the        *)
(* sources) stores the version it is given in self.schema['version'];      *)
(* nothing in keywords.py writes it.  A test case of MaxVersionKeywords    *)
(* calls in a session constructed with a supported or an unsupported       *)
(* version.                                                                *)
(***************************************************************************)
MaxVersionKeywords == 2

Versions == {SupportedVersion, "draft06"}

SchemaOf(version, exampled) ==
  Obj(("request" :> Obj(EmptyMap)) @@ ("response" :> Obj(EmptyMap)) @@
      ("version" :> JStr(version)) @@ ("exampled" :> JBool(exampled)))

ConstructedWith(version, exampled) ==
  LET WithSchema(r, s) ==
        Settle(s.h, r.v, s.v, Null, <<>>, 0, Result("init", "ok", Null, NoFound))
      WithRequest(r) == WithSchema(r, Alloc(r.h, SchemaOf(version, exampled)))
  IN WithRequest(Alloc(<<>>, DefaultRequest))

StartWith(versions, keywords) ==
  \E version \in versions, exampled \in BOOLEAN :
    \E s \in {ConstructedWith(version, exampled)} :
       /\ heap = s.heap
       /\ self_request = s.self_request
       /\ self_schema = s.self_schema
       /\ self_spec = s.self_spec
       /\ instances = s.instances
       /\ exchanges = s.exchanges
       /\ ret = s.ret
       /\ pending = keywords

VersionCalls ==
  \/ \E schema \in ExpectResponseInputs : expect_response(schema)
  \/ \E endpoint \in Endpoints, query \in Queries, raw \in Deliveries({BodyObject}) :
       get(endpoint, query, raw, TRUE)

VersionAssertions ==
  \/ \E skip \in BOOLEAN : null(<<"response", "body", "a", "b">>, <<>>, skip)
  \/ \E validations \in {<<>>, InRange}, skip \in BOOLEAN :
       integer(<<"response", "body", "a", "b">>, <<>>, validations, skip)

InitVersion == StartWith(Versions, MaxVersionKeywords)

NextVersion == VersionCalls \/ VersionAssertions

SpecVersion == InitVersion /\ [][NextVersion]_vars

(***************************************************************************)
(* Properties.                                                             *)
(***************************************************************************)
HttpOps == {"head", "options", "get", "post", "put", "patch", "delete"}

\* The objects reachable from the value in a slot.
Objects(h, v) ==
  IF IsRef(v) THEN {g.a : g \in Visit(h, {[c |-> Address("at", 0, <<>>), a |-> v.a]}, {})}
  ELSE {}

\* The schema, request and response stored in the i-th instance, as trees.
StoredSchema(h, insts, i) == TreeOf(h, Get(h, insts[i], "schema"))
StoredRequest(h, insts, i) == TreeOf(h, Get(h, insts[i], "request"))
StoredResponse(h, insts, i) == TreeOf(h, Get(h, insts[i], "response"))

\* A schema node without the example annotations that stamping puts on it
\* and on the schemas of its properties.
Unexampled(node) ==
  IF node.t = "obj" THEN Obj([k \in DOMAIN node.m \ {"example"} |-> node.m[k]]) ELSE node
Unstamped(schema) ==
  IF schema.t = "obj" /\ "properties" \in DOMAIN schema.m /\ schema.m["properties"].t = "obj"
  THEN Obj([k \in DOMAIN schema.m \ {"example"} |->
              IF k = "properties"
              THEN Obj([f \in DOMAIN schema.m[k].m |-> Unexampled(schema.m[k].m[f])])
              ELSE schema.m[k]])
  ELSE Unexampled(schema)

\* The fragment stored at part.name of a schema store, and whether it is
\* the schema inferred from `tree`, example annotations left aside.
Carries(h, store, part, name, tree) ==
  /\ Has(h, store, part)
  /\ Has(h, Get(h, store, part), name)
  /\ Unstamped(TreeOf(h, Get(h, Get(h, store, part), name))) = Infer(tree)

\* C1: once an instance is in the history, no expectation keyword and no
\* HTTP keyword called later changes the schema stored in it, and the stored
\* schema shares no object with the live self.schema.
C1_SnapshotIsolation ==
  [][/\ \A i \in 1..Len(instances) :
          /\ i <= Len(instances')
          /\ StoredSchema(heap', instances', i) = StoredSchema(heap, instances, i)
     /\ \A i \in 1..Len(instances') :
          Objects(heap', Get(heap', instances'[i], "schema"))
            \cap Objects(heap', self_schema') = {}]_vars

\* An expectation declared after an instance was recorded: the live store
\* has it, the instance's snapshot does not.
C1_Witness ==
  /\ Len(instances) >= 1
  /\ ret.op = "expect_response"
  /\ Has(heap, Get(heap, self_schema, "response"), "foo")
  /\ ~Has(heap, Get(heap, Get(heap, instances[1], "schema"), "response"), "foo")

C3_HistoryAppendOnly ==
  [][/\ Len(instances) <= Len(instances')
     /\ \A i \in 1..Len(instances) :
          /\ StoredRequest(heap', instances', i) = StoredRequest(heap, instances, i)
          /\ StoredResponse(heap', instances', i) = StoredResponse(heap, instances, i)]_vars

\* Two instances recorded, then the history exported.
C3_Witness ==
  /\ Len(instances) = 2
  /\ ret.op = "rest_instances"
  /\ StoredRequest(heap, instances, 1) # StoredRequest(heap, instances, 2)

\* C4 as stated: the history is as long as the number of exchanges that
\* returned a response.
C4_OnePerExchange == Len(instances) = exchanges

\* C4 amended: an HTTP keyword that returns appends exactly one instance;
\* one that raises, and any other keyword, appends none: an exchange that
\* returned a response and failed the spec or schema validation is not in
\* the history.
C4_OnePerReturnedCall ==
  [][/\ (ret'.op \in HttpOps /\ ret'.exc = "ok") =>
          /\ Len(instances') = Len(instances) + 1
          /\ exchanges' = exchanges + 1
     /\ ~(ret'.op \in HttpOps /\ ret'.exc = "ok") => Len(instances') = Len(instances)
     /\ Len(instances') <= exchanges']_vars

\* A response was delivered and the call failed the schema validation.
C4_Witness ==
  /\ ret.op \in HttpOps
  /\ ret.exc = "SchemaValidationError"
  /\ exchanges = Len(instances) + 1

\* C5: when a response body is declared in the live self.schema and the
\* body delivered to an HTTP keyword does not conform to it, the keyword
\* fails with an assertion failure.
C5_NonConformingFailsAssertion ==
  (/\ ret.op \in HttpOps
   /\ ret.exc # "TransportError"
   /\ Has(heap, Get(heap, self_schema, "response"), "body")
   /\ Check(TreeOf(heap, Get(heap, Get(heap, self_schema, "response"), "body")), ret.raw).bad)
  => ret.exc \in AssertionErrors

\* C6: keys declared in a sub-map of self.schema and absent from the
\* exchange are skipped.  So when nothing is declared for the request, every
\* key declared for the response is absent from the response, and no API
\* spec is set, an HTTP keyword that gets a response returns.
ResponseFields == {"status", "seconds", "body", "headers"}

C6_AbsentKeySkipped ==
  (/\ ret.op \in HttpOps
   /\ ret.exc # "TransportError"
   /\ ~Truthy(heap, self_spec)
   /\ Keys(heap, Get(heap, self_schema, "request")) = {}
   /\ Keys(heap, Get(heap, self_schema, "response")) \cap ResponseFields = {})
  => ret.exc = "ok"

\* Resolution by hand, on trees.  Addresses: every key of the path names an
\* existing member (a key that is no integer, on an object) or an existing
\* position (a decimal key, on an array).  Indexed: the value such a path
\* leads to.
RECURSIVE Addresses(_, _)
Addresses(tree, keys) ==
  IF keys = <<>> THEN TRUE
  ELSE IF tree.t = "obj" THEN
    /\ ~IsIntLiteral(Head(keys))
    /\ Head(keys) \in DOMAIN tree.m
    /\ Addresses(tree.m[Head(keys)], Tail(keys))
  ELSE IF tree.t = "arr" THEN
    /\ IsIntLiteral(Head(keys))
    /\ 0 <= IntLiterals[Head(keys)]
    /\ IntLiterals[Head(keys)] < Len(tree.s)
    /\ Addresses(tree.s[IntLiterals[Head(keys)] + 1], Tail(keys))
  ELSE FALSE

RECURSIVE Indexed(_, _)
Indexed(tree, keys) ==
  IF keys = <<>> THEN tree
  ELSE IF tree.t = "obj" THEN Indexed(tree.m[Head(keys)], Tail(keys))
  ELSE Indexed(tree.s[IntLiterals[Head(keys)] + 1], Tail(keys))

\* The keywords that resolve a field path and return the value found.
Resolvers == {"missing", "output"}
Resolved == ret.op \in Resolvers /\ Len(instances) > 0
Root == TreeOf(heap, instances[Len(instances)])

RECURSIVE Endings(_, _)
Endings(tree, keys) ==
  IF keys = <<>> THEN {"ok"}
  ELSE IF tree.t = "obj" THEN
    IF Head(keys) \in DOMAIN tree.m THEN Endings(tree.m[Head(keys)], Tail(keys))
    ELSE {"FieldNotFound"}
  ELSE IF tree.t = "arr" /\ IsIntLiteral(Head(keys)) THEN
    IF 0 <= IntLiterals[Head(keys)] /\ IntLiterals[Head(keys)] < Len(tree.s)
    THEN Endings(tree.s[IntLiterals[Head(keys)] + 1], Tail(keys))
    ELSE {"IndexNotFound"}
  ELSE {"FieldNotFound", "IndexNotFound"}

\* C8: a resolution ends with FieldNotFound or IndexNotFound at the first
\* key that addresses nothing, with no other error, and returns a value only
\* when every key addresses something.
C8_MissesReported == Resolved => ret.exc \in Endings(Root, ret.field)

\* C9: when a path whose keys each address an existing member or position
\* resolves with the schema tracked, the schema reached at every key below
\* the body is a mapping, and it describes the value reached at that key,
\* also when the key is a member named like a schema keyword.
C9_CongruentWalk ==
  (/\ ret.op = "missing" /\ ret.exc = "ok" /\ Len(instances) > 0
   /\ Addresses(Root, ret.field)) =>
     \A i \in 3..Len(ret.field) :
        /\ IsDict(heap, ret.trail[i])
        /\ ~Check(TreeOf(heap, ret.trail[i]), Indexed(Root, SubSeq(ret.field, 1, i))).bad

\* C10: a path that resolved with the schema tracked, resolved again at
\* once, resolves again, creates no object and changes none, and reaches the
\* same schema nodes.
C10_CreateOnce ==
  [][(/\ ret.op = "missing" /\ ret.exc = "ok"
      /\ ret'.op = "missing" /\ ret'.field = ret.field) =>
       /\ ret'.exc = "ok"
       /\ heap' = heap
       /\ instances' = instances
       /\ ret'.value = ret.value
       /\ ret'.schema = ret.schema
       /\ ret'.trail = ret.trail]_vars

\* Position 1 of the body [10, 20, 30] resolved twice in a row: the first
\* resolution created the schema node of that position.
C10_Witness ==
  /\ ret.op = "missing"
  /\ ret.exc = "ok"
  /\ ret.field = <<"response", "body", "1">>
  /\ ret.value = JInt(20)
  /\ ret.before = [op |-> "missing", field |-> ret.field, exc |-> "ok"]
  /\ Has(heap, Get(heap, ret.trail[2], "items"), "1")

\* The type-assertion keywords; the keywords that take a field path.
TypeOps == {"null", "boolean", "integer", "number", "string", "object", "array"}
FieldOps == TypeOps \cup {"missing", "output"}

\* Whether the live self.schema embeds examples (lines 393-396 read it from
\* the last instance's snapshot).
ExampledSession ==
  /\ Len(instances) > 0
  /\ Has(heap, Get(heap, instances[Len(instances)], "schema"), "exampled")
  /\ Truthy(heap, Get(heap, Get(heap, instances[Len(instances)], "schema"), "exampled"))

\* C11: in an exampled session, after a tracked resolution of a path whose
\* keys each address something, the schema node reached at the body and at
\* every key below it has an example equal to the value reached at that key.
C11_EveryNodeStamped ==
  (/\ ret.op = "missing" /\ ret.exc = "ok"
   /\ ExampledSession
   /\ Addresses(Root, ret.field)) =>
     \A i \in 2..Len(ret.field) :
        /\ IsDict(heap, ret.trail[i])
        /\ Has(heap, ret.trail[i], "example")
        /\ TreeOf(heap, Get(heap, ret.trail[i], "example"))
             = Indexed(Root, SubSeq(ret.field, 1, i))

\* The validation keywords the table allows for a type under the session's
\* schema version.
Allowed(json_type) ==
  SCHEMA_KEYWORDS.common[Get(heap, self_schema, "version").c]
    \cup SCHEMA_KEYWORDS[json_type][Get(heap, self_schema, "version").c]
Unrecognized ==
  \E i \in 1..Len(ret.args.validations) : ret.args.validations[i].name \notin Allowed(ret.op)

\* C12: a type-assertion keyword called on a resolving path with a named
\* argument that the table does not allow for its type fails with the
\* unknown-keyword error.
C12_UnknownKeywordFails ==
  (/\ ret.op \in TypeOps
   /\ Len(instances) > 0
   /\ Addresses(Root, ret.field)
   /\ Unrecognized) => ret.exc = "UnknownValidationKeyword"

\* C13: integer, number, string, object or array called with an
\* unrecognized validation keyword fails with the unknown-keyword error and
\* leaves the schema of the last instance as it was before the call.
C13_UnknownKeywordFirst ==
  [][(/\ ret'.op \in TypeOps \ {"null", "boolean"}
      /\ Len(instances) > 0
      /\ \E i \in 1..Len(ret'.args.validations) :
            ret'.args.validations[i].name \notin
              SCHEMA_KEYWORDS.common[SupportedVersion]
                \cup SCHEMA_KEYWORDS[ret'.op][SupportedVersion]) =>
       /\ ret'.exc = "UnknownValidationKeyword"
       /\ StoredSchema(heap', instances', Len(instances'))
            = StoredSchema(heap, instances, Len(instances))]_vars

\* C14: a type-assertion keyword called with skip on a path whose keys each
\* address something returns the value the path leads to.
C14_SkipReturnsValue ==
  (/\ ret.op \in TypeOps
   /\ Len(instances) > 0
   /\ ret.args.skip
   /\ ret.args.validations = <<>>
   /\ Addresses(Root, ret.field)) =>
     /\ ret.exc = "ok"
     /\ TreeOf(heap, ret.value) = Indexed(Root, ret.field)

\* C15: integer(field, minimum=lo, maximum=hi), without enum values and
\* without skip, on a field whose value is the integer v returns v when
\* lo <= v <= hi and fails with SchemaValidationError otherwise, whatever
\* was asserted on the field before.
Bounded ==
  /\ Len(ret.args.validations) = 2
  /\ ret.args.validations[1].name = "minimum"
  /\ ret.args.validations[2].name = "maximum"

C15_BoundsDecide ==
  (/\ ret.op = "integer"
   /\ Len(instances) > 0
   /\ ret.args.enum = <<>>
   /\ ~ret.args.skip
   /\ Bounded
   /\ Addresses(Root, ret.field)
   /\ Indexed(Root, ret.field).t = "int") =>
     IF /\ ret.args.validations[1].arg.i <= Indexed(Root, ret.field).i
        /\ Indexed(Root, ret.field).i <= ret.args.validations[2].arg.i
     THEN ret.exc = "ok" /\ ret.value = Indexed(Root, ret.field)
     ELSE ret.exc = "SchemaValidationError"

\* C16: an HTTP keyword leaves the request template self.request as it was;
\* a settings keyword leaves the history and the request stored in every
\* instance as they were; no object of the template is part of a stored
\* request.
SettingOps == {"set_basic_auth", "set_client_cert", "set_headers"}

C16_TemplateUntouched ==
  [][/\ ret'.op \in HttpOps => TreeOf(heap', self_request') = TreeOf(heap, self_request)
     /\ ret'.op \in SettingOps =>
          /\ Len(instances') = Len(instances)
          /\ \A i \in 1..Len(instances) :
               StoredRequest(heap', instances', i) = StoredRequest(heap, instances, i)
     /\ \A i \in 1..Len(instances') :
          Objects(heap', Get(heap', instances'[i], "request"))
            \cap Objects(heap', self_request') = {}]_vars

\* A header set after a get was recorded: the template has it and still has
\* no method; the recorded request has the method of the call and not the
\* header.
C16_Witness ==
  /\ ret.op = "set_headers"
  /\ Len(instances) = 1
  /\ Has(heap, Get(heap, self_request, "headers"), "Accept")
  /\ ~Has(heap, Get(heap, Get(heap, instances[1], "request"), "headers"), "Accept")
  /\ Get(heap, self_request, "method") = Null
  /\ Get(heap, Get(heap, instances[1], "request"), "method") = JStr("GET")

\* C17: in a session whose schema version is not the supported one, every
\* HTTP keyword that gets a response and every type-assertion keyword
\* called on a resolving path fails with the unknown-schema-version error,
\* also with nothing declared and with skip.
UnsupportedVersion == Get(heap, self_schema, "version") # JStr(SupportedVersion)

C17_VersionReportedAtOnce ==
  (/\ UnsupportedVersion
   /\ \/ ret.op \in HttpOps /\ ret.exc # "TransportError"
      \/ ret.op \in TypeOps /\ Len(instances) > 0 /\ Addresses(Root, ret.field))
  => ret.exc = "UnknownSchemaVersion"

\* C18: missing is a plain lookup.  On a path whose keys each address
\* something it returns the value the path leads to; on any other path it
\* fails with FieldNotFound or IndexNotFound.
C18_MissingIsLookup ==
  (ret.op = "missing" /\ Len(instances) > 0) =>
     IF Addresses(Root, ret.field)
     THEN ret.exc = "ok" /\ TreeOf(heap, ret.value) = Indexed(Root, ret.field)
     ELSE ret.exc \in {"FieldNotFound", "IndexNotFound"}

\* C19: an assertion or lookup keyword, passing or failing, leaves the live
\* self.schema, the request template, the length of the history, the
\* request and the response of every instance and the schema of every
\* instance but the last as they were.
C19_AssertionsFrame ==
  [][ret'.op \in FieldOps =>
       /\ TreeOf(heap', self_schema') = TreeOf(heap, self_schema)
       /\ TreeOf(heap', self_request') = TreeOf(heap, self_request)
       /\ Len(instances') = Len(instances)
       /\ \A i \in 1..Len(instances) :
            /\ StoredRequest(heap', instances', i) = StoredRequest(heap, instances, i)
            /\ StoredResponse(heap', instances', i) = StoredResponse(heap, instances, i)
            /\ i < Len(instances) =>
                 StoredSchema(heap', instances', i) = StoredSchema(heap, instances, i)]_vars

\* C20: an HTTP keyword that fails the spec check or a schema check leaves
\* the session as it was: the history and every instance in it, the live
\* self.schema, the spec and the request template.
CheckFailures == {"SchemaValidationError", "SpecValidationError"}

C20_FailedCallChangesNothing ==
  [][(ret'.op \in HttpOps /\ ret'.exc \in CheckFailures) =>
       /\ Len(instances') = Len(instances)
       /\ \A i \in 1..Len(instances) :
            TreeOf(heap', instances'[i]) = TreeOf(heap, instances[i])
       /\ TreeOf(heap', self_schema') = TreeOf(heap, self_schema)
       /\ TreeOf(heap', self_request') = TreeOf(heap, self_request)
       /\ self_spec' = self_spec]_vars

\* A call that failed its schema check after an earlier call was recorded:
\* two responses were delivered and the history holds the first exchange.
C20_Witness ==
  /\ ret.op \in HttpOps
  /\ ret.exc \in CheckFailures
  /\ exchanges = 2
  /\ Len(instances) = 1
  /\ Get(heap, Get(heap, instances[1], "request"), "timestamp") # Null
  /\ TreeOf(heap, Get(heap, Get(heap, instances[1], "request"), "timestamp")) = Timestamp(1)

====
